---- MODULE Spec2Model ----
(***************************************************************************)
(* Cloud-DNS-Updater: the IP source manager (discovery and arbitration),   *)
(* the DNS updater and the poll loop of main.py, and the concrete sources' *)
(* extraction of addresses from response payloads.                         *)
(***************************************************************************)
EXTENDS Integers, Sequences, FiniteSets, TLC

\* ------------------------------------------------------------------------
\* Bounds of the model
\* ------------------------------------------------------------------------
NumSources == 3
NumRecords == 2

\* ------------------------------------------------------------------------
\* Values
\* ------------------------------------------------------------------------
None == "None"
\* a ping task's result in asyncio.gather(..., return_exceptions=True): the
\* boolean it returned, or an Exception instance
PyTrue == "True"
PyFalse == "False"
Exc == "Exception"

Sources == 1..NumSources
\* priorities sources are constructed with: 0 is the most trusted, 5 the
\* default of IPSource.__init__
Priorities == {0, 5}
Records == 1..NumRecords
Versions == {4, 6}

Addr4 == {"1.1.1.1", "2.2.2.2"}
Addr6 == {"2001:db8::1"}

\* a string that is no address literal but holds one: ipmyp.ir's get_ips
\* stores the 'ip' field of the reply as it came once its stripped form or
\* a token of it validated
Junk4 == {" 1.1.1.1"}
\* ipaddress.ip_address(v) does not raise ValueError
ValidAddress(v) == v \in Addr4 \cup Addr6

\* resolved before get_current_ip returned
Unset == "unset"
\* a record whose update task gather has no result for
NotCalled == "none"
\* a record provider.update_dns_record was not called for
NoUpdateCall == [record_type |-> "none", new_ip |-> None]

\* timeout parameter default of discover_working_sources / IPSource.timeout
DefaultTimeout == 10
\* values of --source-timeout the updaters are constructed with
SourceTimeouts == {5}
TimeoutValues == {DefaultTimeout} \cup SourceTimeouts

\* what one source's ping task yields in gather: True, False or an Exception
PingOutcomes == {PyTrue, PyFalse, Exc}
\* what one source's get_ips task yields in gather: a dict with the keys
\* 'ipv4' and 'ipv6', or an Exception instance (is_exc)
IpsDict(v4s, v6s) == [is_exc : {FALSE}, ipv4 : v4s \cup {None}, ipv6 : v6s \cup {None}]
Raised == [is_exc |-> TRUE, ipv4 |-> None, ipv6 |-> None]
FetchOutcomes == IpsDict(Addr4, Addr6) \cup {Raised}

VARIABLES
    priority,         \* IPSource.priority of each registered source
    sources,          \* IPSourceManager.sources, per manager (active list)
    working_sources,  \* IPSourceManager.working_sources, per manager
    is_working,       \* IPSource.is_working, per manager and source
    timeout,          \* IPSource.timeout, per manager and source
    mgr_call,         \* the last call made on the Manager: its arguments, the
                      \* results gather returned and the value returned
    source_names,     \* IPSourceManager.__init__: the include list
    exclude_sources,  \* IPSourceManager.__init__: the exclude list
    ip_versions,      \* main: the versions an updater is created for, in order
    interval,         \* --interval
    source_timeout,   \* DNSUpdater.source_timeout
    current_ips,      \* run_update_loop: last-applied address per updater
    applied_ok,       \* per updater, the addresses for which one update cycle
                      \* completed with no record update raising
    pc,               \* position of run_update_loop
    cur,              \* index in updaters of the updater being processed
    resolved,         \* what ip_manager.get_current_ip returned for it
    exc,              \* the exception caught in the handlers of the loop
    backoff,          \* seconds slept in the handler for the updater being
                      \* processed, 0 when no handler ran
    update_results,   \* per record, the result gather returned in
                      \* update_dns_records for the updater being processed
    update_calls,     \* per record, the record_type and new_ip its
                      \* provider.update_dns_record call of the pass was made with
    src               \* one call on a concrete source: the source, the method,
                      \* the request it awaits, how its requests ended, the
                      \* seconds they took, its locals, what it returned or raised

mgrVars == <<priority, sources, working_sources, is_working, timeout>>
cfgVars == <<source_names, exclude_sources, ip_versions, interval, source_timeout>>
loopVars == <<current_ips, applied_ok, pc, cur, resolved, exc, backoff, update_results,
              update_calls>>
srcVars == <<src>>
vars == <<mgrVars, mgr_call, cfgVars, loopVars, srcVars>>

\* ------------------------------------------------------------------------
\* Python helpers
\* ------------------------------------------------------------------------
Range(f) == {f[i] : i \in DOMAIN f}

Min(S) == CHOOSE x \in S : \A y \in S : x <= y

\* a sort that is ascending but not stable: elements of equal priority come
\* out in the reverse of the order they stood in
SortByPriorityUnstable(seq, prio) ==
    LET before(i) == {j \in DOMAIN seq :
                        \/ prio[seq[j]] < prio[seq[i]]
                        \/ prio[seq[j]] = prio[seq[i]] /\ j > i}
    IN  [k \in 1..Len(seq) |->
            seq[CHOOSE i \in DOMAIN seq : Cardinality(before(i)) = k - 1]]

\* list.sort(key=lambda x: x.priority): stable, ascending. An element goes
\* behind the elements of smaller priority and behind those of equal priority
\* that stood before it
SortByPriority(seq, prio) ==
    LET before(i) == {j \in DOMAIN seq :
                        \/ prio[seq[j]] < prio[seq[i]]
                        \/ prio[seq[j]] = prio[seq[i]] /\ j < i}
    IN  [k \in 1..Len(seq) |->
            seq[CHOOSE i \in DOMAIN seq : Cardinality(before(i)) = k - 1]]

\* ------------------------------------------------------------------------
\* IPSourceManager.discover_working_sources
\* ------------------------------------------------------------------------
\* the survivors of the probe results, in the order of self.sources
Survivors(active, ping) ==
    SelectSeq(active, LAMBDA s : ping[s] # Exc /\ ping[s] = PyTrue)

\* the list discover_working_sources returns
WorkingNames(active, ping) == Survivors(active, ping)

\* the pass keeping the members of the previous working-set and adding the
\* survivors that are new to it
DiscoverWorkingMerged(old, active, ping, prio) ==
    SortByPriority(old \o SelectSeq(Survivors(active, ping),
                                    LAMBDA s : s \notin Range(old)), prio)

\* the pass without self.working_sources = []: the survivors are appended to
\* the list the previous pass left
DiscoverWorkingAppended(old, active, ping, prio) ==
    SortByPriority(old \o Survivors(active, ping), prio)

\* the pass that keeps a working-set it already has
DiscoverWorkingKeepsOld(old, active, ping, prio) ==
    IF old # <<>> THEN old ELSE SortByPriority(Survivors(active, ping), prio)

\* self.working_sources after the pass, old being the list before it: the
\* list is emptied, the survivors are appended and the list is sorted
DiscoverWorking(old, active, ping, prio) == SortByPriority(Survivors(active, ping), prio)

\* source.timeout = timeout for every active source
TimeoutAfterDiscover(old, active, t) ==
    [s \in Sources |-> IF s \in Range(active) THEN t ELSE old[s]]

\* pings that set the flag when they succeed and never clear it
FlagsAfterDiscoverSticky(old, active, ping) ==
    [s \in Sources |->
        IF s \in Range(active) /\ ping[s] # Exc THEN old[s] \/ ping[s] = PyTrue ELSE old[s]]

\* every concrete ping sets self.is_working to the value it returns; a ping
\* that raises leaves the flag as it was
FlagsAfterDiscover(old, active, ping) ==
    [s \in Sources |->
        IF s \in Range(active) /\ ping[s] # Exc THEN ping[s] = PyTrue ELSE old[s]]

\* ------------------------------------------------------------------------
\* IPSourceManager.get_current_ip
\* ------------------------------------------------------------------------
\* the key of the other family
KeySwapped(ip_version) == IF ip_version = 4 THEN "ipv6" ELSE "ipv4"

Key(ip_version) == IF ip_version = 4 THEN "ipv4" ELSE "ipv6"

\* the collection loop leaving at the first Exception (break for continue)
CandidatesBreakOnException(working, results, ip_version, prio) ==
    LET kept == SelectSeq([i \in DOMAIN working |-> i],
                          LAMBDA i : /\ \A j \in 1..i : ~results[j].is_exc
                                     /\ results[i][Key(ip_version)] # None)
    IN  [k \in DOMAIN kept |-> [ip |-> results[kept[k]][Key(ip_version)],
                                source |-> working[kept[k]],
                                priority |-> prio[working[kept[k]]]]]

\* ip_candidates: one {ip, source, priority} per working source whose result
\* is not an Exception and holds a truthy value under the key
Candidates(working, results, ip_version, prio) ==
    LET kept == SelectSeq([i \in DOMAIN working |-> i],
                          LAMBDA i : /\ ~results[i].is_exc
                                     /\ results[i][Key(ip_version)] # None)
    IN  [k \in DOMAIN kept |-> [ip |-> results[kept[k]][Key(ip_version)],
                                source |-> working[kept[k]],
                                priority |-> prio[working[kept[k]]]]]

\* list(ip_groups.keys()): the distinct addresses in order of first appearance
GroupKeys(cands) ==
    LET firsts == SelectSeq([i \in DOMAIN cands |-> i],
                            LAMBDA i : \A j \in 1..(i - 1) : cands[j].ip # cands[i].ip)
    IN  [k \in DOMAIN firsts |-> cands[firsts[k]].ip]

\* ip_priority[ip] = min(c['priority'] for c in candidates)
IpPriority(ip, cands) ==
    Min({cands[i].priority : i \in {j \in DOMAIN cands : cands[j].ip = ip}})

\* the address with the most reporters (majority vote), first on a tie
SelectByMajority(cands) ==
    LET keys == GroupKeys(cands)
        count(ip) == Cardinality({j \in DOMAIN cands : cands[j].ip = ip})
        first == Min({i \in DOMAIN keys :
                        \A k \in DOMAIN keys : count(keys[k]) <= count(keys[i])})
    IN  keys[first]

\* min(ip_priority.items(), key=lambda x: x[1])[0]: the first key, in
\* insertion order, whose value is minimal
SelectByPriority(cands) ==
    LET keys == GroupKeys(cands)
        best == Min({IpPriority(keys[i], cands) : i \in DOMAIN keys})
        first == Min({i \in DOMAIN keys : IpPriority(keys[i], cands) = best})
    IN  keys[first]

\* no candidates reported as an error instead of a null result
ArbitrateRaisesOnEmpty(cands) ==
    IF cands = <<>> THEN "ValueError"
    ELSE IF Len(GroupKeys(cands)) = 1 THEN GroupKeys(cands)[1]
    ELSE SelectByPriority(cands)

Arbitrate(cands) ==
    IF cands = <<>> THEN None
    ELSE IF Len(GroupKeys(cands)) = 1 THEN GroupKeys(cands)[1]
    ELSE SelectByPriority(cands)

\* gather without return_exceptions=True: the first Exception of a task
\* leaves the await, and get_current_ip ends with it instead of a value
ResolveValueAbortOnException(ws, results, ip_version, prio) ==
    IF ws = <<>> THEN None
    ELSE IF \E i \in DOMAIN results : results[i].is_exc THEN Exc
    ELSE Arbitrate(Candidates(ws, results, ip_version, prio))

\* the value get_current_ip returns, ws being the working-set it fetches
\* from and results what gather returned for it
ResolveValue(ws, results, ip_version, prio) ==
    IF ws = <<>> THEN None
    ELSE Arbitrate(Candidates(ws, results, ip_version, prio))

\* orders in which n concurrent tasks complete: the order they were created
\* in, and the reverse of it
CompletionOrders(n) == {[k \in 1..n |-> k], [k \in 1..n |-> n + 1 - k]}

\* the results in the order the tasks completed in (as asyncio.as_completed
\* yields them)
GatherAsCompleted(outcomes, order) == [k \in DOMAIN outcomes |-> outcomes[order[k]]]

\* asyncio.gather(*tasks, return_exceptions=True): outcomes[i] being what
\* task i ended with and order the order of completion, the list of results
\* is in the order of the tasks
Gather(outcomes, order) == [k \in DOMAIN outcomes |-> outcomes[k]]

\* ------------------------------------------------------------------------
\* The Manager driven directly: any sequence of discover_working_sources and
\* get_current_ip calls on one Manager, the sources' probe and fetch results
\* drawn from every outcome a task of gather can have
\* ------------------------------------------------------------------------
\* the Manager the calls are made on (managers are keyed by their updater)
M == 4

NoCall == [op |-> "none", ip_version |-> 0, working |-> <<>>, results |-> <<>>,
           names |-> <<>>, value |-> None, ping |-> <<>>, before |-> <<>>,
           repeated |-> FALSE, order |-> <<>>, ping2 |-> <<>>, info |-> <<>>]

\* the priorities of the registry's sources are fixed by their classes: one
\* assignment in which registration order and priority order differ
RegistryPriority == [s \in Sources |-> IF s % 2 = 0 THEN 0 ELSE 5]

\* SOURCES_REGISTRY in registration order
Registry == [i \in 1..NumSources |-> i]

MgrTypeOK ==
    /\ priority \in [Sources -> Priorities]
    /\ \A m \in Versions : Range(working_sources[m]) \subseteq Range(sources[m])
    /\ timeout \in [Versions -> [Sources -> TimeoutValues]]
    /\ is_working \in [Versions -> [Sources -> BOOLEAN]]

\* the names the sources are constructed with, in registration order
RegistryNames == <<"ident.me", "icanhazip.com", "checkip.amazonaws.com", "ipify.org",
                   "ipnumberia.com", "ipmyp.ir">>
\* source.name
NameOf(s) == RegistryNames[s]

\* the same names as a user may write them in a list, in upper case
UpperNames == <<"IDENT.ME", "ICANHAZIP.COM", "CHECKIP.AMAZONAWS.COM", "IPIFY.ORG",
                "IPNUMBERIA.COM", "IPMYP.IR">>
\* a name no source has
UnknownName == "nosuch.example"

\* str.lower() on the names above
Lower(name) ==
    IF \E i \in DOMAIN UpperNames : UpperNames[i] = name
    THEN RegistryNames[CHOOSE i \in DOMAIN UpperNames : UpperNames[i] = name]
    ELSE name

\* set(name.lower() for name in names)
LowerSet(names) == {Lower(names[i]) : i \in DOMAIN names}

\* the exclude filter comparing the names as they were written
FilterSourcesCaseSensitive(all, include_names, exclude_names) ==
    LET included == IF include_names = <<>> THEN all
                    ELSE SelectSeq(all, LAMBDA s :
                                      Lower(NameOf(s)) \in LowerSet(include_names))
    IN  IF exclude_names # <<>>
        THEN SelectSeq(included, LAMBDA s : NameOf(s) \notin Range(exclude_names))
        ELSE included

\* _filter_sources(include_names, exclude_names) over self.all_sources; an
\* absent list (None) is falsy as the empty one is
FilterSources(all, include_names, exclude_names) ==
    LET included == IF include_names = <<>> THEN all
                    ELSE SelectSeq(all, LAMBDA s :
                                      Lower(NameOf(s)) \in LowerSet(include_names))
    IN  IF exclude_names # <<>>
        THEN SelectSeq(included, LAMBDA s :
                          Lower(NameOf(s)) \notin LowerSet(exclude_names))
        ELSE included

\* IPSourceManager.__init__ and IPSource.__init__
InitManagers ==
    /\ sources = [m \in Versions |-> FilterSources(Registry, source_names, exclude_sources)]
    /\ working_sources = [m \in Versions |-> <<>>]
    /\ is_working = [m \in Versions |-> [s \in Sources |-> FALSE]]
    /\ timeout = [m \in Versions |-> [s \in Sources |-> DefaultTimeout]]

\* the value of src while no call on a concrete source is in progress
NoSrcCall == [name |-> "none", op |-> "none", step |-> "idle", resp |-> "none",
              resp2 |-> "none", ipv4 |-> <<>>, ipv6 |-> <<>>, ajax_url |-> None,
              nonce |-> None, is_working |-> FALSE, returned |-> None, raised |-> None,
              elapsed |-> 0, text |-> <<>>, version |-> 0, extracted |-> <<>>,
              endpoint4 |-> <<>>, endpoint6 |-> <<>>, post_url |-> None,
              post_nonce |-> None]

\* no poll loop is running
LoopIdle ==
    /\ ip_versions = <<>>
    /\ interval = 0
    /\ source_timeout = DefaultTimeout
    /\ current_ips = [u \in Versions |-> None]
    /\ applied_ok = [u \in Versions |-> {}]
    /\ pc = "idle"
    /\ cur = 0
    /\ resolved = Unset
    /\ exc = None
    /\ backoff = 0
    /\ update_results = [r \in Records |-> NotCalled]
    /\ update_calls = [r \in Records |-> NoUpdateCall]

\* no call is made on a concrete source
SrcIdle == src = NoSrcCall

InitMgr ==
    /\ priority \in [Sources -> Priorities]
    /\ source_names = <<>>
    /\ exclude_sources = <<>>
    /\ InitManagers
    /\ mgr_call = NoCall
    /\ LoopIdle
    /\ SrcIdle

\* a pass that drops the sources it finds unreachable from the active list
DiscoverEffectPrunesActive(m, t, ping) ==
    /\ timeout' = [timeout EXCEPT ![m] = TimeoutAfterDiscover(@, sources[m], t)]
    /\ is_working' = [is_working EXCEPT ![m] = FlagsAfterDiscover(@, sources[m], ping)]
    /\ working_sources' =
           [working_sources EXCEPT ![m] = DiscoverWorking(@, sources[m], ping, priority)]
    /\ sources' = [sources EXCEPT ![m] = Survivors(@, ping)]
    /\ UNCHANGED priority

\* the state a discovery pass with timeout t and probe results ping leaves
DiscoverEffect(m, t, ping) ==
    /\ timeout' = [timeout EXCEPT ![m] = TimeoutAfterDiscover(@, sources[m], t)]
    /\ is_working' = [is_working EXCEPT ![m] = FlagsAfterDiscover(@, sources[m], ping)]
    /\ working_sources' =
           [working_sources EXCEPT ![m] = DiscoverWorking(@, sources[m], ping, priority)]
    /\ UNCHANGED <<priority, sources>>

\* get_current_ip up to its first fetch: a discovery pass with the default
\* timeout when the working-set is empty
ResolveEffect(m, ping) ==
    IF working_sources[m] = <<>>
    THEN DiscoverEffect(m, DefaultTimeout, ping)
    ELSE UNCHANGED mgrVars

\* the timeout discover_working_sources is called with on the Manager driven
\* directly: the default of its parameter (the poll loop passes
\* source_timeout)
MgrTimeouts == {DefaultTimeout}

\* discover_working_sources(session, t) is called; mgr_call keeps the probe
\* results of the pass and the working-set it found (before)
MgrDiscover ==
    /\ mgr_call.op = "none"
    /\ \E t \in MgrTimeouts, ping \in [Sources -> PingOutcomes] :
        /\ DiscoverEffect(M, t, ping)
        /\ mgr_call' = [NoCall EXCEPT !.op = "discover",
                            !.working = DiscoverWorking(working_sources[M], sources[M],
                                                        ping, priority),
                            !.names = WorkingNames(sources[M], ping),
                            !.ping = ping,
                            !.before = working_sources[M]]
    /\ UNCHANGED <<cfgVars, loopVars, srcVars>>

\* discover_working_sources(session, t) is called again right after a pass,
\* with no change in the reachability of the sources: every probe ends as
\* it did in the pass before
MgrRediscover ==
    /\ mgr_call.op = "discover"
    /\ \E t \in MgrTimeouts :
        /\ DiscoverEffect(M, t, mgr_call.ping)
        /\ mgr_call' = [NoCall EXCEPT !.op = "discover",
                            !.working = DiscoverWorking(working_sources[M], sources[M],
                                                        mgr_call.ping, priority),
                            !.names = WorkingNames(sources[M], mgr_call.ping),
                            !.ping = mgr_call.ping,
                            !.before = working_sources[M],
                            !.repeated = TRUE]
    /\ UNCHANGED <<cfgVars, loopVars, srcVars>>

\* get_current_ip(session, ip_version, timeout) is called; it awaits
\* discover_working_sources(session) when the working-set is empty. The
\* body never reads its timeout parameter
MgrGetCurrentIpBegin ==
    /\ mgr_call.op = "none"
    /\ \E ip_version \in Versions :
        \/ /\ working_sources[M] = <<>>
           /\ \E ping \in [Sources -> PingOutcomes] :
                /\ ResolveEffect(M, ping)
                /\ mgr_call' = [NoCall EXCEPT !.op = "resolving",
                                    !.ip_version = ip_version, !.ping = ping]
        \/ /\ working_sources[M] # <<>>
           /\ mgr_call' = [NoCall EXCEPT !.op = "resolving",
                               !.ip_version = ip_version,
                               !.before = working_sources[M]]
           /\ UNCHANGED mgrVars
    /\ UNCHANGED <<cfgVars, loopVars, srcVars>>

\* get_current_ip awaits the gather of get_ips and arbitrates; results[i] is
\* what the get_ips task of working source i ended with, order the order the
\* tasks completed in
MgrGetCurrentIpFetch ==
    /\ mgr_call.op = "resolving"
    /\ LET ws == working_sources[M]
       IN  \E results \in [1..Len(ws) -> FetchOutcomes], order \in CompletionOrders(Len(ws)) :
               mgr_call' = [NoCall EXCEPT !.op = "get_current_ip",
                               !.ip_version = mgr_call.ip_version,
                               !.working = ws,
                               !.results = results,
                               !.order = order,
                               !.value = ResolveValue(ws, Gather(results, order),
                                                      mgr_call.ip_version, priority)]
    /\ UNCHANGED <<mgrVars, cfgVars, loopVars, srcVars>>

\* the caller takes the returned value; the Manager is ready for the next call
MgrReturn ==
    /\ mgr_call.op \in {"discover", "get_current_ip"}
    /\ mgr_call' = NoCall
    /\ UNCHANGED <<mgrVars, cfgVars, loopVars, srcVars>>

NextMgr == MgrDiscover \/ MgrRediscover \/ MgrGetCurrentIpBegin \/ MgrGetCurrentIpFetch \/ MgrReturn

SpecMgr == InitMgr /\ [][NextMgr]_vars

\* ------------------------------------------------------------------------
\* The construction of a Manager from the include and exclude lists of the
\* command line (SpecCfg)
\* ------------------------------------------------------------------------
\* the longest include or exclude list
MaxNames == 2

\* names a list can hold: the registered names, one of them in upper case
\* too, and a name that is not registered
NameChoices ==
    {RegistryNames[s] : s \in Sources} \cup {UpperNames[1], UnknownName}

NameLists == UNION {[1..n -> NameChoices] : n \in 0..MaxNames}

\* the Manager is not constructed yet
Unbuilt == [NoCall EXCEPT !.op = "unbuilt"]

InitCfg ==
    /\ priority = RegistryPriority
    /\ source_names \in NameLists
    /\ exclude_sources \in NameLists
    /\ sources = [m \in Versions |-> <<>>]
    /\ working_sources = [m \in Versions |-> <<>>]
    /\ is_working = [m \in Versions |-> [s \in Sources |-> FALSE]]
    /\ timeout = [m \in Versions |-> [s \in Sources |-> DefaultTimeout]]
    /\ mgr_call = Unbuilt
    /\ ip_versions = <<>>
    /\ interval = 0
    /\ source_timeout = DefaultTimeout
    /\ current_ips = [u \in Versions |-> None]
    /\ applied_ok = [u \in Versions |-> {}]
    /\ pc = "idle"
    /\ cur = 0
    /\ resolved = Unset
    /\ exc = None
    /\ backoff = 0
    /\ update_results = [r \in Records |-> NotCalled]
    /\ update_calls = [r \in Records |-> NoUpdateCall]
    /\ SrcIdle

\* IPSourceManager(source_names, exclude_sources): all_sources from the
\* registry, sources by _filter_sources, an empty working-set
MgrConstruct ==
    /\ mgr_call.op = "unbuilt"
    /\ sources' = [m \in Versions |->
                       FilterSources(Registry, source_names, exclude_sources)]
    /\ working_sources' = [m \in Versions |-> <<>>]
    /\ mgr_call' = NoCall
    /\ UNCHANGED <<priority, is_working, timeout, cfgVars, loopVars, srcVars>>

SpecCfg == InitCfg /\ [][MgrConstruct]_vars

\* ------------------------------------------------------------------------
\* main.run_update_loop over the updaters main creates, with
\* DNSUpdater.get_current_ip and DNSUpdater.update_dns_records
\* ------------------------------------------------------------------------
\* address-family modes of main: -4 and -6
IpVersionModes == {<<4>>, <<6>>}
\* values of --interval, one below and one above the backoff caps
Intervals == {20, 90}
\* min(interval, 30) and min(interval, 60) in the handlers
TimeoutBackoff == 30
ErrorBackoff == 60

\* the six sources of the registry catch every exception themselves: their
\* ping returns a boolean and their get_ips a dict
LoopPingOutcomes == {PyTrue, PyFalse}
LoopFetchOutcomes == IpsDict(Addr4 \cup Junk4, Addr6)

\* results a provider's update_dns_record task can have in gather
UpdateOutcomes == {"ok", "exc"}

\* classes of exceptions the try block of the loop can raise: ValueError from
\* DNSUpdater.get_current_ip and from ipaddress.ip_address
ExceptionClasses == {"TimeoutError", "ClientError", "ValueError"}

PyMin(a, b) == IF a <= b THEN a ELSE b

\* the updater being processed, by its ip_version
U == ip_versions[cur]

InitLoop ==
    /\ priority = RegistryPriority
    /\ source_names = <<>>
    /\ exclude_sources = <<>>
    /\ InitManagers
    /\ mgr_call = NoCall
    /\ ip_versions \in IpVersionModes
    /\ interval \in Intervals
    /\ source_timeout \in SourceTimeouts
    /\ current_ips = [u \in Versions |-> None]
    /\ applied_ok = [u \in Versions |-> {}]
    /\ pc = "discover"
    /\ cur = 1
    /\ resolved = Unset
    /\ exc = None
    /\ backoff = 0
    /\ update_results = [r \in Records |-> NotCalled]
    /\ update_calls = [r \in Records |-> NoUpdateCall]
    /\ SrcIdle

\* DNSUpdater.get_current_ip, first await: discover_working_sources
LoopDiscover ==
    /\ pc = "discover"
    /\ \E ping \in [Sources -> LoopPingOutcomes] : DiscoverEffect(U, source_timeout, ping)
    /\ pc' = "resolve"
    /\ UNCHANGED <<mgr_call, cfgVars, srcVars, current_ips, applied_ok, cur, resolved, exc,
                   backoff, update_results, update_calls>>

\* DNSUpdater.get_current_ip, second await: ip_manager.get_current_ip up to
\* its fetch
LoopResolveBegin ==
    /\ pc = "resolve"
    /\ \/ /\ working_sources[U] = <<>>
          /\ \E ping \in [Sources -> LoopPingOutcomes] : ResolveEffect(U, ping)
       \/ /\ working_sources[U] # <<>>
          /\ UNCHANGED mgrVars
    /\ pc' = "fetch"
    /\ UNCHANGED <<mgr_call, cfgVars, srcVars, current_ips, applied_ok, cur, resolved, exc,
                   backoff, update_results, update_calls>>

\* if not ip: raise ValueError
RaisesNoAddressNever(ip) == FALSE

RaisesNoAddress(ip) == ip = None

\* ip_manager.get_current_ip returns; DNSUpdater.get_current_ip raises or
\* returns new_ip; the loop compares it with current_ips and stores it
LoopFetch ==
    /\ pc = "fetch"
    /\ \E results \in [1..Len(working_sources[U]) -> LoopFetchOutcomes] :
         LET ip == ResolveValue(working_sources[U], results, U, priority)
         IN  /\ resolved' = ip
             /\ IF RaisesNoAddress(ip)
                THEN /\ exc' = "ValueError"
                     /\ pc' = "except"
                     /\ UNCHANGED current_ips
                ELSE IF ip # current_ips[U]
                THEN /\ current_ips' = [current_ips EXCEPT ![U] = ip]
                     /\ pc' = "update"
                     /\ UNCHANGED exc
                ELSE /\ pc' = "next"
                     /\ UNCHANGED <<current_ips, exc>>
    /\ UNCHANGED <<mgrVars, mgr_call, cfgVars, srcVars, applied_ok, cur, backoff,
                   update_results, update_calls>>

\* awaiting the tasks one after the other: the first exception ends the
\* cycle and the later records are not updated
GatherAbortOnException(outcome) ==
    [r \in Records |->
        IF \E q \in Records : q < r /\ outcome[q] = "exc" THEN NotCalled ELSE outcome[r]]

\* asyncio.gather(*tasks, return_exceptions=True) over one task per record:
\* every task runs to its end; results in the order of self.records
GatherUpdates(outcome) == [r \in Records |-> outcome[r]]

\* ipaddress.ip_address(new_ip).version of a valid address
AddressVersion(new_ip) == IF new_ip \in Addr4 THEN 4 ELSE 6

\* every record taken for an address record of IPv4
RecordTypeAlwaysA(new_ip) == "a"

\* record_type = 'a' if ip_version == 4 else 'aaaa'
RecordType(new_ip) == IF AddressVersion(new_ip) = 4 THEN "a" ELSE "aaaa"

\* one provider.update_dns_record(domain, record, record_type, new_ip) task
\* per record of self.records
UpdateCalls(new_ip) ==
    [r \in Records |-> [record_type |-> RecordType(new_ip), new_ip |-> new_ip]]

\* DNSUpdater.update_dns_records(new_ip)
LoopUpdate ==
    /\ pc = "update"
    /\ IF ~ValidAddress(resolved)
       THEN /\ exc' = "ValueError"
            /\ pc' = "except"
            /\ UNCHANGED <<applied_ok, update_results, update_calls>>
       ELSE \E outcome \in [Records -> UpdateOutcomes] :
            LET results == GatherUpdates(outcome)
            IN  /\ update_results' = results
                /\ update_calls' = UpdateCalls(resolved)
                /\ applied_ok' = [applied_ok EXCEPT ![U] =
                              IF \A r \in Records : results[r] = "ok"
                              THEN @ \cup {resolved} ELSE @]
                /\ pc' = "next"
                /\ UNCHANGED exc
    /\ UNCHANGED <<mgrVars, mgr_call, cfgVars, srcVars, current_ips, cur, resolved, backoff>>

\* the handlers without the last one (except Exception)
CaughtNetworkOnly(e) == e = "TimeoutError" \/ e = "ClientError"

\* except asyncio.TimeoutError / aiohttp.ClientError / Exception
Caught(e) == e = "TimeoutError" \/ e = "ClientError" \/ e \in ExceptionClasses

\* the argument of asyncio.sleep in the handler that catches e
Backoff(e, i) ==
    IF e = "TimeoutError" THEN PyMin(i, TimeoutBackoff)
    ELSE IF e = "ClientError" THEN PyMin(i, TimeoutBackoff)
    ELSE PyMin(i, ErrorBackoff)

\* the try block around the for loop instead of inside it: after the
\* sleep of the handler the tick is over and the next one starts with the
\* first updater
LoopExceptOutsideFor ==
    /\ pc = "except"
    /\ IF Caught(exc)
       THEN /\ pc' = "discover"
            /\ cur' = 1
            /\ resolved' = Unset
            /\ exc' = None
            /\ backoff' = 0
            /\ update_results' = [r \in Records |-> NotCalled]
            /\ update_calls' = [r \in Records |-> NoUpdateCall]
       ELSE /\ pc' = "terminated"
            /\ UNCHANGED <<cur, resolved, exc, backoff, update_results, update_calls>>
    /\ UNCHANGED <<mgrVars, mgr_call, cfgVars, srcVars, current_ips, applied_ok>>

\* the except clauses: sleep and go on with the next updater; an exception
\* no clause catches ends run_update_loop
LoopExcept ==
    /\ pc = "except"
    /\ IF Caught(exc)
       THEN /\ backoff' = Backoff(exc, interval)
            /\ pc' = "next"
       ELSE /\ pc' = "terminated"
            /\ UNCHANGED backoff
    /\ UNCHANGED <<mgrVars, mgr_call, cfgVars, srcVars, current_ips, applied_ok, cur, resolved,
                   exc, update_results, update_calls>>

\* the locals of one pass of the for loop
ResetPass ==
    /\ resolved' = Unset
    /\ exc' = None
    /\ backoff' = 0
    /\ update_results' = [r \in Records |-> NotCalled]
    /\ update_calls' = [r \in Records |-> NoUpdateCall]

\* for updater in updaters: the next updater, or after the last one
\* await asyncio.sleep(interval) and the next tick of while True
LoopNext ==
    /\ pc = "next"
    /\ cur' = IF cur < Len(ip_versions) THEN cur + 1 ELSE 1
    /\ pc' = "discover"
    /\ ResetPass
    /\ UNCHANGED <<mgrVars, mgr_call, cfgVars, srcVars, current_ips, applied_ok>>

\* the task running the loop is cancelled from outside (at any await):
\* asyncio.run(main()) ends and with it the updaters and the loop's locals
LoopCancel ==
    /\ pc \in {"discover", "resolve", "fetch", "update", "except", "next"}
    /\ pc' = "cancelled"
    /\ working_sources' = [m \in Versions |-> <<>>]
    /\ is_working' = [m \in Versions |-> [s \in Sources |-> FALSE]]
    /\ timeout' = [m \in Versions |-> [s \in Sources |-> DefaultTimeout]]
    /\ current_ips' = [u \in Versions |-> None]
    /\ applied_ok' = [u \in Versions |-> {}]
    /\ cur' = 1
    /\ ResetPass
    /\ UNCHANGED <<priority, sources, mgr_call, cfgVars, srcVars>>

LoopRun ==
    \/ LoopDiscover
    \/ LoopResolveBegin
    \/ LoopFetch
    \/ LoopUpdate
    \/ LoopExcept
    \/ LoopNext

Next == LoopRun \/ LoopCancel

Spec == InitLoop /\ [][Next]_vars

\* the event loop resumes the coroutine whenever its await completes, and
\* every await of the loop completes: requests by their timeout, sleeps
\* by their delay
FairSpec == Spec /\ WF_vars(LoopRun)

\* --dual-stack: ip_versions = [4, 6], one updater and one Manager per
\* version, with --sources naming the first two sources of the registry
InitDual ==
    /\ priority = RegistryPriority
    /\ source_names = <<RegistryNames[1], RegistryNames[2]>>
    /\ exclude_sources = <<>>
    /\ InitManagers
    /\ mgr_call = NoCall
    /\ ip_versions = <<4, 6>>
    /\ interval \in Intervals
    /\ source_timeout \in SourceTimeouts
    /\ current_ips = [u \in Versions |-> None]
    /\ applied_ok = [u \in Versions |-> {}]
    /\ pc = "discover"
    /\ cur = 1
    /\ resolved = Unset
    /\ exc = None
    /\ backoff = 0
    /\ update_results = [r \in Records |-> NotCalled]
    /\ update_calls = [r \in Records |-> NoUpdateCall]
    /\ SrcIdle

SpecDual == InitDual /\ [][Next]_vars

LoopTypeOK ==
    /\ MgrTypeOK
    /\ pc \in {"discover", "resolve", "fetch", "update", "except", "next", "cancelled",
               "terminated"}
    /\ cur \in 1..Len(ip_versions)
    /\ current_ips \in [Versions -> Addr4 \cup Junk4 \cup Addr6 \cup {None}]
    /\ backoff \in 0..ErrorBackoff

\* ------------------------------------------------------------------------
\* The calls an updater makes on its Manager (SpecTick): the tick of
\* DNSUpdater.get_current_ip, discover_working_sources(timeout) and then
\* get_current_ip, any number of times, and get_working_sources_info between
\* ticks. The sources are those of the registry: a ping returns a boolean,
\* a get_ips a dict.
\* ------------------------------------------------------------------------
\* The Manager is constructed with no --sources and with an exclude list
\* that is empty or names the first source of the registry.
InitTick ==
    /\ priority = RegistryPriority
    /\ source_names = <<>>
    /\ exclude_sources \in {<<>>, <<RegistryNames[1]>>}
    /\ InitManagers
    /\ mgr_call = NoCall
    /\ ip_versions \in IpVersionModes
    /\ interval = 0
    /\ source_timeout \in SourceTimeouts
    /\ current_ips = [u \in Versions |-> None]
    /\ applied_ok = [u \in Versions |-> {}]
    /\ pc = "idle"
    /\ cur = 1
    /\ resolved = Unset
    /\ exc = None
    /\ backoff = 0
    /\ update_results = [r \in Records |-> NotCalled]
    /\ update_calls = [r \in Records |-> NoUpdateCall]
    /\ SrcIdle

\* DNSUpdater.get_current_ip, first await: the discovery pass of the tick;
\* mgr_call keeps its probe results and the working-set the tick found
TickDiscover ==
    /\ mgr_call.op = "none"
    /\ \E ping \in [Sources -> LoopPingOutcomes] :
        /\ DiscoverEffect(U, source_timeout, ping)
        /\ mgr_call' = [NoCall EXCEPT !.op = "discovered", !.ping = ping,
                            !.before = working_sources[U]]
    /\ UNCHANGED <<cfgVars, loopVars, srcVars>>

\* DNSUpdater.get_current_ip, second await: ip_manager.get_current_ip up to
\* its fetch, with its own discovery pass (ping2) on an empty working-set
TickResolveBegin ==
    /\ mgr_call.op = "discovered"
    /\ \/ /\ working_sources[U] = <<>>
          /\ \E ping \in [Sources -> LoopPingOutcomes] :
               /\ ResolveEffect(U, ping)
               /\ mgr_call' = [mgr_call EXCEPT !.op = "resolving", !.ping2 = ping]
       \/ /\ working_sources[U] # <<>>
          /\ mgr_call' = [mgr_call EXCEPT !.op = "resolving"]
          /\ UNCHANGED mgrVars
    /\ UNCHANGED <<cfgVars, loopVars, srcVars>>

\* ip_manager.get_current_ip gathers the get_ips tasks and arbitrates
TickFetch ==
    /\ mgr_call.op = "resolving"
    /\ LET ws == working_sources[U]
       IN  \E results \in [1..Len(ws) -> LoopFetchOutcomes] :
               mgr_call' = [mgr_call EXCEPT !.op = "tick",
                               !.ip_version = U,
                               !.working = ws,
                               !.results = results,
                               !.value = ResolveValue(ws, results, U, priority)]
    /\ UNCHANGED <<mgrVars, cfgVars, loopVars, srcVars>>

\* get_working_sources_info(): one {name, priority, working} per source of
\* self.sources
WorkingSourcesInfo(m) ==
    [i \in DOMAIN sources[m] |-> [name |-> NameOf(sources[m][i]),
                                  priority |-> priority[sources[m][i]],
                                  working |-> is_working[m][sources[m][i]]]]

TickInfo ==
    /\ mgr_call.op = "none"
    /\ mgr_call' = [NoCall EXCEPT !.op = "info", !.info = WorkingSourcesInfo(U)]
    /\ UNCHANGED <<mgrVars, cfgVars, loopVars, srcVars>>

\* the caller has the value of the tick, or the snapshot
TickReturn ==
    /\ mgr_call.op \in {"tick", "info"}
    /\ mgr_call' = NoCall
    /\ UNCHANGED <<mgrVars, cfgVars, loopVars, srcVars>>

NextTick == TickDiscover \/ TickResolveBegin \/ TickFetch \/ TickInfo \/ TickReturn

SpecTick == InitTick /\ [][NextTick]_vars

\* ------------------------------------------------------------------------
\* The concrete sources: ping, get_ips and
\* IPSource._extract_ip_from_response. A payload is a sequence of tokens:
\* whitespace, a word of letters, a punctuation character, or an
\* address-shaped token; address-shaped tokens do not touch each other.
\* ------------------------------------------------------------------------
MaxTextLen == 3

Space == " "
Word == "host"
Punct == "<"
\* dotted quads that are no address
Bad4 == {"999.1.1.1"}
\* IPv6 addresses written with all eight groups
Full6 == {"2001:db8:0:0:0:0:0:1"}
\* IPv6 addresses written with a dotted quad for their last 32 bits
Compat6 == {"::1.1.1.1"}
\* what str() makes of them
Short6 == {"::101:101"}

Atoms == {Space, Word, Punct} \cup Addr4 \cup Bad4 \cup Addr6 \cup Full6 \cup Compat6
AddrShaped == Addr4 \cup Bad4 \cup Addr6 \cup Full6 \cup Compat6

Texts ==
    {t \in UNION {[1..n -> Atoms] : n \in 0..MaxTextLen} :
        \A i \in 1..(Len(t) - 1) : ~(t[i] \in AddrShaped /\ t[i + 1] \in AddrShaped)}

\* None as a value of the dict get_ips returns; a value that is present is
\* the text of the string (no source stores an empty string)
NoValue == <<>>

\* str.strip()
RECURSIVE StripLeft(_)
StripLeft(t) == IF t # <<>> /\ t[1] = Space THEN StripLeft(Tail(t)) ELSE t

RECURSIVE StripRight(_)
StripRight(t) ==
    IF t # <<>> /\ t[Len(t)] = Space THEN StripRight(SubSeq(t, 1, Len(t) - 1)) ELSE t

Strip(t) == StripRight(StripLeft(t))

\* ipaddress.ip_address(token).version, 0 when it raises ValueError
IpVersionOf(token) ==
    IF token \in Addr4 THEN 4
    ELSE IF token \in Addr6 \cup Full6 \cup Compat6 \cup Short6 THEN 6
    ELSE 0

\* str(ipaddress.ip_address(token)): IPv6 comes out compressed, in hex groups
StrOfAddress(token) ==
    IF token \in Full6 THEN "2001:db8::1"
    ELSE IF token \in Compat6 THEN "::101:101"
    ELSE token

\* positions re.findall finds a match of the pattern of the version at: a
\* dotted quad (resp. eight groups of hex digits) between word boundaries.
\* The quad that ends an IPv6 address follows a colon, a word boundary.
PatternMatches(t, version) ==
    {i \in DOMAIN t :
        /\ t[i] \in (IF version = 4 THEN Addr4 \cup Bad4 \cup Compat6 ELSE Full6)
        /\ (i > 1 /\ t[i] \notin Compat6 => t[i - 1] \in {Space, Punct})
        /\ (i < Len(t) => t[i + 1] \in {Space, Punct})}

\* the text matched at a position PatternMatches finds
MatchAt(t, i) == IF t[i] \in Compat6 THEN "1.1.1.1" ELSE t[i]

\* IPSource._extract_ip_from_response(text, version)
ExtractIp(text, version) ==
    IF text = <<>> THEN NoValue
    ELSE LET t == Strip(text)
         IN  IF Len(t) = 1 /\ IpVersionOf(t[1]) # 0
             THEN IF IpVersionOf(t[1]) = version THEN <<StrOfAddress(t[1])>> ELSE NoValue
             ELSE LET valid == {i \in PatternMatches(t, version) :
                                   IpVersionOf(MatchAt(t, i)) = version}
                  IN  IF valid = {} THEN NoValue
                      ELSE <<StrOfAddress(MatchAt(t, Min(valid)))>>

\* _validate_ip(ip, version) of ipnumberia.com and ipmyp.ir
ValidateIp(ip, version) == ExtractIp(ip, version) # NoValue

\* the classes of the registry
TwoEndpointText == {"ident.me", "icanhazip.com"}
OneEndpointText == {"checkip.amazonaws.com"}
TwoEndpointJson == {"ipify.org"}
SourceNames == TwoEndpointText \cup OneEndpointText \cup TwoEndpointJson
                  \cup {"ipnumberia.com", "ipmyp.ir"}

\* session.get / session.post raised a transport error
ErrorResponse == [kind |-> "error"]
\* the request ran into timeout=self.timeout
TimeoutResponse == [kind |-> "timeout"]
\* response.status != 200
StatusResponse == [kind |-> "status"]

\* what ping looks at: whether the request raised, and the status
PingResponses == {ErrorResponse, TimeoutResponse, StatusResponse, [kind |-> "ok"]}

\* responses of an endpoint answering in plain text
TextResponses ==
    {ErrorResponse, TimeoutResponse, StatusResponse}
        \cup {[kind |-> "ok", body |-> t] : t \in Texts}

\* responses of an endpoint answering in JSON with an 'ip' field: a body
\* that does not decode, a value that is no object, an object without the
\* field, an object with it
JsonResponses ==
    {ErrorResponse, TimeoutResponse, StatusResponse,
     [kind |-> "ok", json |-> "undecodable"], [kind |-> "ok", json |-> "not_object"],
     [kind |-> "ok", json |-> "no_ip"]}
        \cup {[kind |-> "ok", json |-> "ip", ip |-> t] : t \in Texts}

\* the first page of ipnumberia.com: the first match of each pattern, a
\* dotted quad, when there is one
QuadOrNone == {NoValue} \cup {<<q>> : q \in Addr4 \cup Bad4}
NumberiaResponses ==
    {ErrorResponse, TimeoutResponse, StatusResponse}
        \cup {[kind |-> "ok", div |-> d, td |-> c] : d \in QuadOrNone, c \in QuadOrNone}

\* the first page of ipmyp.ir: the root element when there is one, with its
\* data-ajax and data-nonce attributes when it has them
AjaxUrls == {"/wp-admin/admin-ajax.php"}
Nonces == {"n1", "n2"}
MypPageResponses ==
    {ErrorResponse, TimeoutResponse, StatusResponse, [kind |-> "ok", root |-> FALSE]}
        \cup {[kind |-> "ok", root |-> TRUE, ajax |-> a, nonce |-> n] :
                a \in AjaxUrls \cup {None}, n \in Nonces \cup {None}}

\* the reply to the AJAX request of ipmyp.ir: a body that does not decode,
\* a value that is no object, an object without success or data, an object
\* with data.ip
MypAjaxResponses ==
    {ErrorResponse, TimeoutResponse, StatusResponse,
     [kind |-> "ok", json |-> "undecodable"], [kind |-> "ok", json |-> "not_object"],
     [kind |-> "ok", json |-> "no_success"], [kind |-> "ok", json |-> "no_ip"]}
        \cup {[kind |-> "ok", json |-> "ip", ip |-> t] : t \in Texts}

\* seconds a request can take under timeout = self.timeout of a source as
\* constructed: it ends when the timeout fires, or it is answered (or
\* fails) at once or just before
RequestTimes(resp) ==
    IF resp.kind = "timeout" THEN {DefaultTimeout} ELSE {1, DefaultTimeout - 1}

InitSrc ==
    /\ priority = RegistryPriority
    /\ source_names = <<>>
    /\ exclude_sources = <<>>
    /\ InitManagers
    /\ mgr_call = NoCall
    /\ LoopIdle
    /\ SrcIdle

\* the text handed to _extract_ip_from_response: response.text(), or
\* data.get('ip', '') of response.json()
TextOf(resp) ==
    IF "body" \in DOMAIN resp THEN resp.body
    ELSE IF resp.json = "ip" THEN resp.ip ELSE <<>>

\* the request, the decoding of its body or the use of the decoded value
\* raises inside the try block
RequestRaises(resp) ==
    \/ resp.kind \in {"error", "timeout"}
    \/ resp.kind = "ok" /\ "json" \in DOMAIN resp /\ resp.json \in {"undecodable", "not_object"}

\* the exception it raises
ExceptionOf(resp) ==
    IF resp.kind = "error" THEN "ClientError"
    ELSE IF resp.kind = "timeout" THEN "TimeoutError"
    ELSE IF resp.json = "undecodable" THEN "JSONDecodeError"
    ELSE "AttributeError"

\* a handler for transport failures only
HandledTransportOnly(e) == e \in {"ClientError", "TimeoutError"}

\* the handlers of ping and get_ips (except:, except Exception) take every
\* exception the try block raises
Handled(e) == e \in {"ClientError", "TimeoutError", "JSONDecodeError", "AttributeError"}

\* the exception that leaves the method, None when the handler took it
Escaping(resp) ==
    IF RequestRaises(resp) /\ ~Handled(ExceptionOf(resp)) THEN ExceptionOf(resp) ELSE None

\* the text holds an address of the version
HoldsAddress(text, version) ==
    \E i \in DOMAIN text :
        \/ IpVersionOf(text[i]) = version
        \/ version = 4 /\ text[i] \in Compat6

\* how a request ended, seen from outside: it failed, the status was not
\* 200, the body did not decode or lacks the field, the body holds nothing
\* to use ("unparsable"), or it has it ("ok")
OutcomeOf(resp, version) ==
    IF resp.kind # "ok" THEN resp.kind
    ELSE IF "json" \in DOMAIN resp /\ resp.json # "ip" THEN resp.json
    ELSE IF "div" \in DOMAIN resp
         THEN IF HoldsAddress(resp.div, 4) \/ HoldsAddress(resp.td, 4)
              THEN "ok" ELSE "unparsable"
    ELSE IF "root" \in DOMAIN resp
         THEN IF resp.root /\ resp.ajax # None /\ resp.nonce # None
              THEN "ok" ELSE "unparsable"
    ELSE IF HoldsAddress(TextOf(resp), version) THEN "ok" ELSE "unparsable"

\* ping of every source: one GET; is_working = response.status == 200, and
\* False in the handler
SrcPing ==
    /\ src.step = "idle"
    /\ \E name \in SourceNames, resp \in PingResponses :
         \E d \in RequestTimes(resp) :
           LET ok == resp.kind = "ok"
               escapes == Escaping(resp) # None
           IN  src' = [NoSrcCall EXCEPT !.name = name, !.op = "ping", !.step = "done",
                          !.resp = resp.kind,
                          !.is_working = IF escapes THEN @ ELSE ok,
                          !.returned = IF escapes THEN None
                                       ELSE IF ok THEN PyTrue ELSE PyFalse,
                          !.raised = Escaping(resp),
                          !.elapsed = d]
    /\ UNCHANGED <<mgrVars, mgr_call, cfgVars, loopVars>>

\* get_ips is called: results = {'ipv4': None, 'ipv6': None}
SrcGetIps ==
    /\ src.step = "idle"
    /\ \E name \in SourceNames :
           src' = [src EXCEPT !.name = name, !.op = "get_ips",
                      !.step = IF name = "ipnumberia.com" THEN "get_page"
                               ELSE IF name = "ipmyp.ir" THEN "get_myp_page"
                               ELSE "get_v4"]
    /\ UNCHANGED <<mgrVars, mgr_call, cfgVars, loopVars>>

ResponsesOf(name) == IF name \in TwoEndpointJson THEN JsonResponses ELSE TextResponses

\* the address of the version an endpoint reports by its response, NoValue
\* when the response holds none or the request fails
Reported(resp, version) ==
    IF resp.kind = "ok" /\ ~RequestRaises(resp) THEN ExtractIp(TextOf(resp), version)
    ELSE NoValue

\* the responses the IPv6 endpoint of the source has for the call when
\* get_ips leaves before asking it
Unasked(name) == IF name \in OneEndpointText THEN {StatusResponse} ELSE ResponsesOf(name)

\* the request to the IPv4 endpoint of ident.me, icanhazip.com,
\* checkip.amazonaws.com, ipify.org; when it raises, the handler ends
\* get_ips and the IPv6 endpoint, whatever it has to report, is not asked
SrcGetV4 ==
    /\ src.step = "get_v4"
    /\ \E resp \in ResponsesOf(src.name) :
         \E d \in RequestTimes(resp), other \in (IF RequestRaises(resp) THEN Unasked(src.name)
                                                  ELSE {StatusResponse}) :
           src' = [src EXCEPT !.resp = OutcomeOf(resp, 4),
                      !.ipv4 = IF resp.kind = "ok" /\ ~RequestRaises(resp)
                               THEN ExtractIp(TextOf(resp), 4) ELSE @,
                      !.endpoint4 = Reported(resp, 4),
                      !.endpoint6 = Reported(other, 6),
                      !.raised = Escaping(resp),
                      !.elapsed = @ + d,
                      !.step = IF RequestRaises(resp) \/ src.name \in OneEndpointText
                               THEN "done" ELSE "get_v6"]
    /\ UNCHANGED <<mgrVars, mgr_call, cfgVars, loopVars>>

\* the request to the IPv6 endpoint of ident.me, icanhazip.com, ipify.org
SrcGetV6 ==
    /\ src.step = "get_v6"
    /\ \E resp \in ResponsesOf(src.name) :
         \E d \in RequestTimes(resp) :
           src' = [src EXCEPT !.resp2 = OutcomeOf(resp, 6),
                      !.ipv6 = IF resp.kind = "ok" /\ ~RequestRaises(resp)
                               THEN ExtractIp(TextOf(resp), 6) ELSE @,
                      !.endpoint6 = Reported(resp, 6),
                      !.raised = Escaping(resp),
                      !.elapsed = @ + d,
                      !.step = "done"]
    /\ UNCHANGED <<mgrVars, mgr_call, cfgVars, loopVars>>

\* the value ipnumberia.com's get_ips stores from its page: the match of
\* the first pattern when it validates, else that of the second
NumberiaIpv4(resp) ==
    IF resp.div # NoValue /\ ValidateIp(resp.div, 4) THEN resp.div
    ELSE IF resp.td # NoValue /\ ValidateIp(resp.td, 4) THEN resp.td
    ELSE NoValue

\* IPNumberiaSource.get_ips
SrcNumberiaPage ==
    /\ src.step = "get_page"
    /\ \E resp \in NumberiaResponses :
         \E d \in RequestTimes(resp) :
           src' = [src EXCEPT !.resp = OutcomeOf(resp, 4),
                      !.ipv4 = IF resp.kind = "ok" THEN NumberiaIpv4(resp) ELSE @,
                      !.raised = Escaping(resp),
                      !.elapsed = @ + d,
                      !.step = "done"]
    /\ UNCHANGED <<mgrVars, mgr_call, cfgVars, loopVars>>

\* IPMypSource.get_ips, step 1: the page with the root element, its
\* data-ajax and its data-nonce; anything less returns the empty results
SrcMypPage ==
    /\ src.step = "get_myp_page"
    /\ \E resp \in MypPageResponses :
         \E d \in RequestTimes(resp) :
           LET found == /\ resp.kind = "ok"
                        /\ resp.root
                        /\ resp.ajax # None
                        /\ resp.nonce # None
           IN  src' = [src EXCEPT !.resp = OutcomeOf(resp, 4),
                      !.ajax_url = IF found THEN resp.ajax ELSE @,
                      !.nonce = IF found THEN resp.nonce ELSE @,
                      !.raised = Escaping(resp),
                      !.elapsed = @ + d,
                      !.step = IF found THEN "post_myp_ajax" ELSE "done"]
    /\ UNCHANGED <<mgrVars, mgr_call, cfgVars, loopVars>>

\* the value ipmyp.ir's get_ips stores: data['data'].get('ip') as it came,
\* when it is non-empty and validates
MypIpv4(ip) == IF ip # <<>> /\ ValidateIp(ip, 4) THEN ip ELSE NoValue

\* IPMypSource.get_ips, step 2: the AJAX request with the nonce
SrcMypAjax ==
    /\ src.step = "post_myp_ajax"
    /\ \E resp \in MypAjaxResponses :
         \E d \in RequestTimes(resp) :
           src' = [src EXCEPT !.resp2 = OutcomeOf(resp, 4),
                      !.post_url = src.ajax_url,
                      !.post_nonce = src.nonce,
                      !.ipv4 = IF resp.kind = "ok" /\ resp.json = "ip"
                               THEN MypIpv4(resp.ip) ELSE @,
                      !.raised = Escaping(resp),
                      !.elapsed = @ + d,
                      !.step = "done"]
    /\ UNCHANGED <<mgrVars, mgr_call, cfgVars, loopVars>>

\* _extract_ip_from_response called on a payload
SrcExtract ==
    /\ src.step = "idle"
    /\ \E text \in Texts, version \in Versions :
           src' = [NoSrcCall EXCEPT !.op = "extract", !.step = "done",
                      !.text = text, !.version = version,
                      !.extracted = ExtractIp(text, version)]
    /\ UNCHANGED <<mgrVars, mgr_call, cfgVars, loopVars>>

\* a source keeping the endpoint and the nonce of its last negotiation as
\* attributes
AfterReturnKeepsNegotiation(call) ==
    [NoSrcCall EXCEPT !.ajax_url = call.ajax_url, !.nonce = call.nonce]

\* what is left of a call once it is over: results, html, ajax_url, nonce
\* and data are locals of get_ips
AfterReturn(call) == NoSrcCall

\* the method returns (or its exception leaves it): the locals of the call
\* are gone; the next call is made on a source as constructed
SrcReturn ==
    /\ src.step = "done"
    /\ src' = AfterReturn(src)
    /\ UNCHANGED <<mgrVars, mgr_call, cfgVars, loopVars>>

NextSrc ==
    \/ SrcPing
    \/ SrcGetIps
    \/ SrcGetV4
    \/ SrcGetV6
    \/ SrcNumberiaPage
    \/ SrcMypPage
    \/ SrcMypAjax
    \/ SrcExtract
    \/ SrcReturn

SpecSrc == InitSrc /\ [][NextSrc]_vars

\* ------------------------------------------------------------------------
\* Properties of arbitration (SpecMgr)
\* ------------------------------------------------------------------------
\* what the source at position i of the working-set reported for family v
\* in the call: its task did not raise and its dict holds a value there
ReportedBy(i, v) ==
    IF mgr_call.results[i].is_exc THEN None
    ELSE IF v = 4 THEN mgr_call.results[i].ipv4 ELSE mgr_call.results[i].ipv6

Reporters(y) ==
    {i \in DOMAIN mgr_call.working : ReportedBy(i, mgr_call.ip_version) = y}

ReportedAddrs ==
    {ReportedBy(i, mgr_call.ip_version) : i \in DOMAIN mgr_call.working} \ {None}

BestPriority(y) == Min({priority[mgr_call.working[i]] : i \in Reporters(y)})

Resolved == mgr_call.op = "get_current_ip"

\* C1: when the sources of one resolve cycle report more than one distinct
\* address, get_current_ip returns a reported address whose most trusted
\* reporter has a priority number no larger than that of the most trusted
\* reporter of any other reported address, whatever the number of reporters.
C1_MostTrustedReporterWins ==
    (Resolved /\ Cardinality(ReportedAddrs) > 1) =>
        /\ mgr_call.value \in ReportedAddrs
        /\ \A y \in ReportedAddrs \ {mgr_call.value} :
               BestPriority(mgr_call.value) <= BestPriority(y)

\* one source of a smaller priority number wins against a majority
C1_Witness ==
    /\ Resolved
    /\ \E y \in ReportedAddrs \ {mgr_call.value} :
           /\ Cardinality(Reporters(mgr_call.value)) = 1
           /\ Cardinality(Reporters(y)) >= 2
           /\ BestPriority(mgr_call.value) < BestPriority(y)

\* C2: if every source that yields a candidate for the requested version
\* reports the same address, get_current_ip returns exactly that address,
\* for every assignment of priorities.
C2_Unanimity ==
    (Resolved /\ Cardinality(ReportedAddrs) = 1) => ReportedAddrs = {mgr_call.value}

\* two reporters of different priority agree while another source raised
C2_Witness ==
    /\ Resolved
    /\ Cardinality(ReportedAddrs) = 1
    /\ \E i, j \in Reporters(mgr_call.value) :
           priority[mgr_call.working[i]] # priority[mgr_call.working[j]]
    /\ \E i \in DOMAIN mgr_call.results : mgr_call.results[i].is_exc
    /\ mgr_call.value \in ReportedAddrs

\* C6: get_current_ip(v) returns null or a value that a member of the
\* working-set reported under the key of family v in this cycle; a value
\* reported under the key of the other family is never a candidate.
C6_OnlyReportedOfFamily ==
    Resolved => (mgr_call.value = None \/ mgr_call.value \in ReportedAddrs)

\* an IPv4 resolve returns an address while a source reported only IPv6
C6_Witness ==
    /\ Resolved
    /\ mgr_call.ip_version = 4
    /\ mgr_call.value \in Addr4
    /\ \E i \in DOMAIN mgr_call.results :
           /\ ~mgr_call.results[i].is_exc
           /\ mgr_call.results[i].ipv4 = None
           /\ mgr_call.results[i].ipv6 \in Addr6

\* C8: if every working source's get_ips raised or returned null for the
\* requested version, or the working-set is empty after discovery,
\* get_current_ip returns null (and nothing else, such as an error).
C8_NoCandidatesGivesNull ==
    (Resolved /\ ReportedAddrs = {}) => mgr_call.value = None

\* one source raised and another returned a dict without the requested family
C8_Witness ==
    /\ Resolved
    /\ ReportedAddrs = {}
    /\ mgr_call.value = None
    /\ \E i, j \in DOMAIN mgr_call.results :
           /\ mgr_call.results[i].is_exc
           /\ ~mgr_call.results[j].is_exc
           /\ ReportedBy(j, IF mgr_call.ip_version = 4 THEN 6 ELSE 4) # None

\* the sequence seq without its element i
Without(seq, i) == [k \in 1..(Len(seq) - 1) |-> IF k < i THEN seq[k] ELSE seq[k + 1]]

\* C16: a working source whose get_ips raised or returned null for the
\* requested family contributes nothing and does not abort the others: the
\* value returned is the value get_current_ip returns with that source
\* removed from the working-set.
C16_FailingSourceContributesNothing ==
    Resolved =>
        \A i \in DOMAIN mgr_call.working :
            ReportedBy(i, mgr_call.ip_version) = None =>
                mgr_call.value = ResolveValue(Without(mgr_call.working, i),
                                              Without(mgr_call.results, i),
                                              mgr_call.ip_version, priority)

\* an address was returned although one source raised and another returned
\* a dict without a value of the family
C16_Witness ==
    /\ Resolved
    /\ mgr_call.value \in ReportedAddrs
    /\ \E i, j \in DOMAIN mgr_call.results :
           /\ mgr_call.results[i].is_exc
           /\ ~mgr_call.results[j].is_exc
           /\ ReportedBy(j, mgr_call.ip_version) = None

\* the first working source, in working-set order, that reported an address
\* whose best reporter has the smallest priority number of all
FirstBestReporter ==
    Min({i \in DOMAIN mgr_call.working :
            /\ ReportedBy(i, mgr_call.ip_version) # None
            /\ \A y \in ReportedAddrs :
                   BestPriority(ReportedBy(i, mgr_call.ip_version)) <= BestPriority(y)})

\* C17: the value returned is determined by the working-set order and by
\* what each source reported, whatever order the get_ips calls completed
\* in: among the addresses of minimum priority it is the one reported by
\* the source that comes first in working-set order.
C17_FirstInWorkingOrderWinsTie ==
    (Resolved /\ ReportedAddrs # {}) =>
        mgr_call.value = ReportedBy(FirstBestReporter, mgr_call.ip_version)

\* the calls completed in another order than the working-set order, and two
\* distinct addresses had the same minimum priority
C17_Witness ==
    /\ Resolved
    /\ mgr_call.order # [k \in DOMAIN mgr_call.working |-> k]
    /\ \E y, z \in ReportedAddrs :
           /\ y # z
           /\ BestPriority(y) = BestPriority(z)
           /\ \A x \in ReportedAddrs : BestPriority(y) <= BestPriority(x)
    /\ mgr_call.value = ReportedBy(FirstBestReporter, mgr_call.ip_version)
    /\ FirstBestReporter > 1

\* ------------------------------------------------------------------------
\* Properties of discovery (SpecMgr)
\* ------------------------------------------------------------------------
\* the call on the Manager ran a discovery pass (discover_working_sources,
\* or get_current_ip on an empty working-set)
PassRan == mgr_call.ping # <<>>

\* the place of source s in the list seq
PositionIn(seq, s) == CHOOSE k \in DOMAIN seq : seq[k] = s

\* C11: after a discovery pass the working-set holds exactly the active
\* sources whose probe of this pass returned true, each once: a source whose
\* probe raised or returned false is absent whatever the previous working-set
\* was, and a source whose probe succeeded is present.
C11_WorkingSetIsThisPassSurvivors ==
    PassRan =>
        /\ Range(working_sources[M]) =
               {s \in Range(sources[M]) : mgr_call.ping[s] = PyTrue}
        /\ Len(working_sources[M]) = Cardinality(Range(working_sources[M]))

\* a pass dropped a member of the previous working-set whose probe raised and
\* took up a source that was not in it
C11_Witness ==
    /\ mgr_call.op = "discover"
    /\ \E s \in Range(mgr_call.before) : mgr_call.ping[s] = Exc
    /\ \E s \in Range(mgr_call.before) : mgr_call.ping[s] = PyFalse
    /\ \E s \in Range(sources[M]) \ Range(mgr_call.before) : mgr_call.ping[s] = PyTrue

\* C12: the working-set is in ascending order of priority, and members of
\* equal priority stand in the order of the active source list.
C12_SortedByPriorityStable ==
    \A i, j \in DOMAIN working_sources[M] :
        i < j =>
            LET a == working_sources[M][i]
                b == working_sources[M][j]
            IN  \/ priority[a] < priority[b]
                \/ /\ priority[a] = priority[b]
                   /\ PositionIn(sources[M], a) < PositionIn(sources[M], b)

\* a pass found a working-set with two members of equal priority, in which
\* the priority order differs from the registration order
C12_Witness ==
    /\ mgr_call.op = "discover"
    /\ \E i, j \in DOMAIN working_sources[M] :
           /\ i < j
           /\ priority[working_sources[M][i]] = priority[working_sources[M][j]]
    /\ \E i, j \in DOMAIN working_sources[M] :
           /\ i < j
           /\ PositionIn(sources[M], working_sources[M][i]) >
                  PositionIn(sources[M], working_sources[M][j])

\* C13: a discovery pass that directly follows a pass with the same probe
\* outcome of every source leaves the working-set as it was, members and
\* order, and returns the same list of names.
C13_IdempotentRediscovery ==
    [][mgr_call'.repeated
       => /\ mgr_call'.ping = mgr_call.ping
          /\ working_sources'[M] = working_sources[M]
          /\ mgr_call'.working = mgr_call.working
          /\ mgr_call'.names = mgr_call.names]_vars

\* a second pass with the same probe results has run, over a working-set of
\* two or more members and with a source that is not reachable
C13_Witness ==
    /\ mgr_call.op = "discover"
    /\ mgr_call.repeated
    /\ Len(working_sources[M]) >= 2
    /\ \E s \in Range(sources[M]) : mgr_call.ping[s] # PyTrue

\* ------------------------------------------------------------------------
\* Properties of the construction (SpecCfg)
\* ------------------------------------------------------------------------
\* C14: the active source list is the list of the registered sources, in
\* registration order, whose lowercased name is in the lowercased include
\* list (or the include list is empty) and is not in the lowercased exclude
\* list; a name in both lists is excluded.
C14_ActiveSetIsIncludeMinusExclude ==
    mgr_call.op # "unbuilt" =>
        \A m \in Versions :
            /\ Range(sources[m]) =
                   {s \in Sources :
                       /\ source_names = <<>> \/
                            \E i \in DOMAIN source_names :
                                Lower(source_names[i]) = Lower(NameOf(s))
                       /\ \A i \in DOMAIN exclude_sources :
                            Lower(exclude_sources[i]) # Lower(NameOf(s))}
            /\ \A i, j \in DOMAIN sources[m] : i < j => sources[m][i] < sources[m][j]

\* a Manager was built from an include list and an exclude list that name
\* the same source in different case: its active list is empty
C14_Witness ==
    /\ mgr_call.op = "none"
    /\ source_names = <<UpperNames[1]>>
    /\ exclude_sources = <<RegistryNames[1], UnknownName>>
    /\ sources[M] = <<>>

\* ------------------------------------------------------------------------
\* Properties of the updater's calls on its Manager (SpecTick)
\* ------------------------------------------------------------------------
\* the probe results of the last discovery pass of the tick: those of the
\* pass get_current_ip ran when the first pass found no source
LastPing ==
    IF Survivors(sources[U], mgr_call.ping) = <<>> /\ mgr_call.ping2 # <<>>
    THEN mgr_call.ping2 ELSE mgr_call.ping

\* the working-set a Manager without history has after these probe results
FreshWorking == SortByPriority(Survivors(sources[U], LastPing), priority)

\* C25: the value a tick (discovery, then resolve) resolves depends on the
\* probe and fetch outcomes of the tick alone: it is the value a Manager
\* with no earlier tick resolves from them, whatever the working-sets,
\* results and failures of the ticks before.
C25_TickDependsOnItsOutcomesOnly ==
    mgr_call.op = "tick" =>
        /\ mgr_call.working = FreshWorking
        /\ mgr_call.value = ResolveValue(FreshWorking, mgr_call.results, U, priority)

\* a tick resolved an address from a working-set that has no source in
\* common with the one the tick before left
C25_Witness ==
    /\ mgr_call.op = "tick"
    /\ mgr_call.before # <<>>
    /\ Range(mgr_call.before) \cap Range(mgr_call.working) = {}
    /\ mgr_call.value \in Addr4 \cup Addr6

\* the snapshot has one entry per active source, with its name, its
\* priority and its flag
InfoListsActive ==
    /\ Len(mgr_call.info) = Len(sources[U])
    /\ \A i \in DOMAIN sources[U] :
          /\ mgr_call.info[i].name = NameOf(sources[U][i])
          /\ mgr_call.info[i].priority = priority[sources[U][i]]
          /\ mgr_call.info[i].working = is_working[U][sources[U][i]]

\* the flags of the active sources say who is in the working-set
FlagsAreWorkingSet ==
    \A s \in Range(sources[U]) : is_working[U][s] <=> s \in Range(working_sources[U])

\* C27: get_working_sources_info changes no state and returns one entry per
\* active source, in or out of the working-set; and while no Manager
\* operation is under way the flag of an active source is true exactly when
\* the source is in the working-set.
C27_InfoIsSnapshotOfFlags ==
    /\ []((mgr_call.op = "info" => InfoListsActive) /\ (mgr_call.op \in {"none", "discovered", "tick", "info"} => FlagsAreWorkingSet))
    /\ [][mgr_call'.op = "info" => UNCHANGED mgrVars]_vars

\* the snapshot taken after a tick shows a source that works and one that
\* does not
C27_Witness ==
    /\ mgr_call.op = "info"
    /\ \E i, j \in DOMAIN mgr_call.info :
          /\ mgr_call.info[i].working
          /\ ~mgr_call.info[j].working
    /\ Len(working_sources[U]) < Len(mgr_call.info)

\* C28: no Manager operation changes the priority of a source or the
\* active list (its members and their order) the construction fixed:
\* discovery and resolve change timeouts, flags and the working-set only,
\* and the working-set holds active sources only.
C28_IdentityAndActiveSetFixed ==
    /\ [](\A m \in Versions : Range(working_sources[m]) \subseteq Range(sources[m]))
    /\ [][priority' = priority /\ sources' = sources]_vars

\* a discovery pass has set the timeouts and found some of the active
\* sources, not all, working
C28_Witness ==
    /\ mgr_call.op = "discovered"
    /\ working_sources[U] # <<>>
    /\ Len(working_sources[U]) < Len(sources[U])
    /\ \A s \in Range(sources[U]) : timeout[U][s] = source_timeout
    /\ sources[U] = FilterSources(Registry, source_names, exclude_sources)

\* ------------------------------------------------------------------------
\* Properties of the poll loop (Spec, FairSpec)
\* ------------------------------------------------------------------------
UpdateRaised == \E r \in Records : update_results[r] = "exc"

\* C3: after a record update raised for the resolved address v, the
\* last-applied value of that updater is still the old value and not v (so
\* that the next tick resolving v calls the provider again).
C3_FailedUpdateKeepsOldValue ==
    (pc = "next" /\ UpdateRaised) => current_ips[U] # resolved

\* C4: the last-applied address of an updater is none or an address for
\* which an update cycle completed with no record update raising.
C4_LastAppliedWasUpdated ==
    \A u \in Versions : current_ips[u] = None \/ current_ips[u] \in applied_ok[u]

\* C5: in an update cycle the provider update of every configured record is
\* issued and runs to its end, also when updates of other records raise.
C5_EveryRecordUpdated ==
    (\E r \in Records : update_results[r] # NotCalled) =>
        \A r \in Records : update_results[r] \in UpdateOutcomes

\* the update of the first record raised and that of a later one succeeded
C5_Witness ==
    /\ pc = "next"
    /\ update_results[1] = "exc"
    /\ \E r \in Records : r > 1 /\ update_results[r] = "ok"

\* C9: in a pass where resolve yields no address no provider update is
\* called, the last-applied values stay as they are, and the loop goes on
\* through its handler to the next pass.
C9_NullResolveChangesNothing ==
    [][resolved' = None =>
          /\ current_ips' = current_ips
          /\ applied_ok' = applied_ok
          /\ \A r \in Records : update_results'[r] = NotCalled
          /\ pc' \in {"except", "next"}]_vars

\* resolve yielded nothing while an address was applied before, and the
\* handler has run
C9_Witness ==
    /\ resolved = None
    /\ pc = "next"
    /\ current_ips[U] \in Addr4
    /\ backoff > 0

TickStart == pc = "discover" /\ cur = 1

\* C10: no exception ends the loop: a handler sleeps at most 30 s after a
\* timeout or network error, at most 60 s after any other exception and
\* never more than the interval, and a further tick is always started until
\* the loop is cancelled from outside.
C10_LoopNeverEnds ==
    /\ [](pc # "terminated")
    /\ []((pc = "next" /\ exc # None) =>
            /\ backoff <= interval
            /\ backoff <= IF exc \in {"TimeoutError", "ClientError"}
                          THEN TimeoutBackoff ELSE ErrorBackoff)
    /\ []<>(TickStart \/ pc = "cancelled")

\* a handler has slept the capped backoff after an exception
C10_Witness ==
    /\ pc = "next"
    /\ exc = "ValueError"
    /\ interval > ErrorBackoff
    /\ backoff = ErrorBackoff

\* C15: the probes and fetches a call get_current_ip(version, timeout = t)
\* issues are bounded by t, those of the discovery pass it runs on an empty
\* working-set included: once its probes have run and its fetches are
\* issued, the per-call timeout of every active source is t. The loop calls
\* it with t = source_timeout.
C15_CallBoundedByItsTimeout ==
    pc = "fetch" => \A s \in Range(sources[U]) : timeout[U][s] = source_timeout

\* C21: in a pass of the loop the provider update is called, once per
\* record and with the resolved address, when the resolved address differs
\* from the last-applied value of the updater (none at the start), and no
\* provider call is made when it equals it.
C21_UpdateIffChanged ==
    [][/\ pc = "fetch" /\ pc' = "next" =>
              /\ resolved' = current_ips[U]
              /\ \A r \in Records : update_calls'[r] = NoUpdateCall
       /\ pc = "fetch" /\ pc' # "cancelled" /\ resolved' # None
                       /\ resolved' # current_ips[U] => pc' = "update"
       /\ pc = "update" /\ pc' # "cancelled" =>
              \A r \in Records : update_calls'[r].new_ip = resolved
      ]_vars

\* C22: every provider update call has record type A exactly when its
\* address is IPv4 and AAAA exactly when it is IPv6, and no call is made
\* with a value that is no address.
C22_RecordTypeFollowsFamily ==
    \A r \in Records :
        update_calls[r] # NoUpdateCall =>
            /\ ValidAddress(update_calls[r].new_ip)
            /\ update_calls[r].record_type = "a" <=> update_calls[r].new_ip \in Addr4
            /\ update_calls[r].record_type = "aaaa" <=> update_calls[r].new_ip \in Addr6

\* the IPv6 updater has called the provider for every record, with an IPv6
\* address and type AAAA
C22_Witness ==
    /\ pc = "next"
    /\ U = 6
    /\ \A r \in Records :
            /\ update_calls[r].new_ip \in Addr6
            /\ update_calls[r].record_type = "aaaa"

\* C26: in dual-stack mode the pass of one updater, an exception raised in
\* it included, leaves the working-set, the flags, the timeouts and the
\* last-applied value of the other version as they are, and the updater of
\* the other version is processed in the same tick: every handler leads to
\* the next updater.
C26_VersionsAreIndependent ==
    [][pc' # "cancelled" =>
          /\ \A u \in Versions \ {U} :
                /\ working_sources'[u] = working_sources[u]
                /\ is_working'[u] = is_working[u]
                /\ timeout'[u] = timeout[u]
                /\ current_ips'[u] = current_ips[u]
          /\ pc = "except" => pc' = "next" /\ cur' = cur
          /\ pc = "next" /\ cur < Len(ip_versions) =>
                cur' = cur + 1 /\ pc' = "discover"
      ]_vars

\* the IPv6 updater has applied an address in a tick while the IPv4
\* updater has none, its passes having ended in the handler
C26_Witness ==
    /\ Len(ip_versions) = 2
    /\ cur = 2
    /\ pc = "next"
    /\ current_ips[4] = None
    /\ current_ips[6] \in Addr6
    /\ working_sources[4] # working_sources[6]

\* ------------------------------------------------------------------------
\* Properties of the concrete sources (SpecSrc)
\* ------------------------------------------------------------------------
\* the text is one address literal of the family
IsAddressLiteral(text, version) == Len(text) = 1 /\ IpVersionOf(text[1]) = version

\* C7: every non-null value get_ips returns under 'ipv4' (resp. 'ipv6') is
\* itself a valid IPv4 (resp. IPv6) address literal.
C7_ReturnedValuesAreLiterals ==
    src.step = "done" =>
        /\ (src.ipv4 = NoValue \/ IsAddressLiteral(src.ipv4, 4))
        /\ (src.ipv6 = NoValue \/ IsAddressLiteral(src.ipv6, 6))

\* a call on a source has returned or raised
SrcDone(op) == src.op = op /\ src.step = "done"

\* the request did not end in data the source can use
Failed(outcome) == outcome \notin {"none", "ok"}

C19_CallWithinTimeout ==
    SrcDone("ping") \/ SrcDone("get_ips") => src.elapsed <= DefaultTimeout

\* the matches of the pattern scan that are addresses of the version, in
\* the order of the scan
ValidMatches(t, version) ==
    {i \in PatternMatches(t, version) : IpVersionOf(MatchAt(t, i)) = version}

\* C20: _extract_ip_from_response(text, v) returns the address when the
\* stripped payload is an address literal of family v; otherwise the first
\* match of the pattern scan that is an address of family v; null when
\* there is none or the payload is empty; and never a string that is no
\* address of family v.
C20_ExtractLiteralElseFirstMatch ==
    SrcDone("extract") =>
        LET t == Strip(src.text)
            v == src.version
        IN  /\ IF IsAddressLiteral(t, v)
               THEN src.extracted = <<StrOfAddress(t[1])>>
               ELSE IF ValidMatches(t, v) # {}
               THEN src.extracted = <<StrOfAddress(MatchAt(t, Min(ValidMatches(t, v))))>>
               ELSE src.extracted = NoValue
            /\ (src.extracted = NoValue \/ IsAddressLiteral(src.extracted, v))

\* C23: in ident.me, icanhazip.com and ipify.org a failure of the request
\* for one family makes the value of that family null and no other: the
\* value get_ips returns for a family is what the endpoint of that family
\* reported, also for IPv6 when the IPv4 request raised.
C23_FamiliesFailAlone ==
    SrcDone("get_ips") /\ src.name \in TwoEndpointText \cup TwoEndpointJson =>
        /\ src.ipv4 = src.endpoint4
        /\ src.ipv6 = src.endpoint6

\* C24: every get_ips call on ipmyp.ir starts with the GET of the page,
\* holding no endpoint and no nonce; the POST is made only after the page
\* gave both, to that endpoint and with that nonce; and none of them is
\* left when the call is over.
C24_NegotiationFromStepOne ==
    /\ src.step = "idle" => src.ajax_url = None /\ src.nonce = None
    /\ src.name = "ipmyp.ir" /\ src.op = "get_ips" =>
          /\ src.step = "get_myp_page" =>
                /\ src.resp = "none"
                /\ src.ajax_url = None /\ src.nonce = None /\ src.post_url = None
          /\ src.step # "get_myp_page" => src.resp # "none"
          /\ src.step = "post_myp_ajax" =>
                src.resp = "ok" /\ src.ajax_url \in AjaxUrls /\ src.nonce \in Nonces
          /\ src.resp2 # "none" =>
                /\ src.resp = "ok"
                /\ src.post_url \in AjaxUrls /\ src.post_url = src.ajax_url
                /\ src.post_nonce \in Nonces /\ src.post_nonce = src.nonce

\* a call on ipmyp.ir posted the second nonce and got an address
C24_Witness ==
    /\ SrcDone("get_ips")
    /\ src.name = "ipmyp.ir"
    /\ src.post_nonce = "n2"
    /\ src.resp2 = "ok"
    /\ src.ipv4 # NoValue

====
